---- MODULE Spec2Model ----
(***************************************************************************)
(* A model of app.py of the Finance-Dashboard: the loaded checking and     *)
(* savings frames, the description normaliser (clean_description), the     *)
(* combined series (transactions_over_time) and the category aggregation   *)
(* (description_pie_chart).                                                *)
(*                                                                         *)
(* Text is a sequence of one-character strings.  A regular expression of   *)
(* settings.json is a sequence of tokens, each a literal character or the  *)
(* class "\\d"; this is the fixed-length fragment of Python's re.          *)
(* A frame is [columns |-> sequence of names, rows |-> sequence of         *)
(* records], a record being a function from the frame's columns to values. *)
(***************************************************************************)
EXTENDS Integers, Sequences, FiniteSets, TLC

VARIABLES SETTINGS, checking, savings, loaded, call, result, raised, stdout

vars == <<SETTINGS, checking, savings, loaded, call, result, raised, stdout>>

(***************************************************************************)
(* Program constants.                                                      *)
(***************************************************************************)
Limit == 30
TopN == 10
Ellipsis == <<".", ".", ".">>

(***************************************************************************)
(* Bounds of the model.                                                    *)
(***************************************************************************)
MaxRows == 3
MaxLen == 4
MaxPatterns == 2
MaxRules == 2
MaxOver == 2

(***************************************************************************)
(* Text: re.sub, str.strip, re.search.                                     *)
(***************************************************************************)
Digits == {"0", "1", "2", "3", "4", "5", "6", "7", "8", "9"}
Whitespace == {" "}

MatchChar(tok, c) == IF tok = "\\d" THEN c \in Digits ELSE tok = c

MatchAt(s, p, i) ==
  /\ i + Len(p) - 1 <= Len(s)
  /\ \A k \in 1..Len(p) : MatchChar(p[k], s[i + k - 1])

RECURSIVE SubFrom(_, _, _)
SubFrom(s, p, i) ==
  IF i > Len(s) THEN <<>>
  ELSE IF MatchAt(s, p, i) THEN SubFrom(s, p, i + Len(p))
  ELSE <<s[i]>> \o SubFrom(s, p, i + 1)

\* re.sub(pattern, "", s): the leftmost non-overlapping matches are removed.
re_sub(p, s) == IF Len(p) = 0 THEN s ELSE SubFrom(s, p, 1)

RECURSIVE lstrip(_)
lstrip(s) ==
  IF s # <<>> /\ Head(s) \in Whitespace THEN lstrip(Tail(s)) ELSE s

RECURSIVE rstrip(_)
rstrip(s) ==
  IF s # <<>> /\ s[Len(s)] \in Whitespace
  THEN rstrip(SubSeq(s, 1, Len(s) - 1)) ELSE s

\* A strip that trims the left end only.
strip_left_only(s) == lstrip(s)

strip(s) == rstrip(lstrip(s))

\* str.contains(pat): re.search finds a match at some position.
contains(s, p) == \E i \in 1..(Len(s) + 1) : MatchAt(s, p, i)

(***************************************************************************)
(* Frames.                                                                 *)
(***************************************************************************)
HasColumn(df, col) == \E k \in 1..Len(df.columns) : df.columns[k] = col

\* df[col] = values: an existing column is overwritten, a new one is
\* appended; values holds one value per row.
SetColumn(df, col, values) ==
  [columns |-> IF HasColumn(df, col) THEN df.columns
               ELSE Append(df.columns, col),
   rows |-> [i \in 1..Len(df.rows) |->
               [c \in DOMAIN df.rows[i] \cup {col} |->
                  IF c = col THEN values[i] ELSE df.rows[i][c]]]]

\* The same value in every row (df[col] = scalar).
Broadcast(df, v) == [i \in 1..Len(df.rows) |-> v]

\* df[mask]: the rows whose mask entry is true, in order, as a new frame.
RECURSIVE SelectRows(_, _, _)
SelectRows(rows, mask, i) ==
  IF i > Len(rows) THEN <<>>
  ELSE IF mask[i] THEN <<rows[i]>> \o SelectRows(rows, mask, i + 1)
  ELSE SelectRows(rows, mask, i + 1)

Filter(df, mask) == [columns |-> df.columns, rows |-> SelectRows(df.rows, mask, 1)]

EmptyFrame == [columns |-> <<>>, rows |-> <<>>]

(***************************************************************************)
(* clean_description.                                                      *)
(***************************************************************************)
\* The loop over the patterns: each pattern is removed from the column as the
\* previous pattern left it, and the column is stripped.
RECURSIVE StripNoise(_, _)
StripNoise(df, patterns) ==
  IF patterns = <<>> THEN df
  ELSE StripNoise(
         SetColumn(df, "Description",
                   [i \in 1..Len(df.rows) |->
                      strip(re_sub(Head(patterns), df.rows[i].Description))]),
         Tail(patterns))

\* The loop over the custom categories, in the mapping's order: the rows
\* whose current description contains the trigger get the label.
RECURSIVE Substitute(_, _)
Substitute(df, custom_categories) ==
  IF custom_categories = <<>> THEN df
  ELSE Substitute(
         SetColumn(df, "Description",
                   [i \in 1..Len(df.rows) |->
                      IF contains(df.rows[i].Description, Head(custom_categories)[1])
                      THEN Head(custom_categories)[2]
                      ELSE df.rows[i].Description]),
         Tail(custom_categories))

\* A truncation that appends the ellipsis without cutting.
TruncateWithoutCut(x) == IF Len(x) > Limit THEN x \o Ellipsis ELSE x

\* A truncation that already cuts a label of Limit characters.
TruncateFromLimit(x) ==
  IF Len(x) >= Limit THEN SubSeq(x, 1, Limit) \o Ellipsis ELSE x

Truncate(x) == IF Len(x) > Limit THEN SubSeq(x, 1, Limit) \o Ellipsis ELSE x

NoiseStripped(df, account_type) == StripNoise(df, SETTINGS[account_type].patterns)

Labelled(df, account_type) ==
  Substitute(NoiseStripped(df, account_type),
             SETTINGS[account_type].customCategories)

MissingDescription == "Expected a Description column, but none was found."

\* A clean_description that returns nothing when the column is missing.
clean_description_returns_none(df, account_type) ==
  IF ~HasColumn(df, "Description")
  THEN [df |-> EmptyFrame, same |-> FALSE,
        out |-> <<[kind |-> "diagnostic", text |-> <<MissingDescription>>]>>]
  ELSE LET labelled == Labelled(df, account_type)
       IN [df |-> SetColumn(labelled, "Description",
                            [i \in 1..Len(labelled.rows) |->
                               Truncate(labelled.rows[i].Description)]),
           same |-> FALSE,
           out |-> [k \in 1..Len(SETTINGS[account_type].patterns) |->
                      [kind |-> "pattern",
                       text |-> SETTINGS[account_type].patterns[k]]]]

\* The value returned, whether it is the argument itself (no copy was made),
\* and the lines printed.
clean_description(df, account_type) ==
  IF ~HasColumn(df, "Description")
  THEN [df |-> df, same |-> TRUE,
        out |-> <<[kind |-> "diagnostic", text |-> <<MissingDescription>>]>>]
  ELSE LET labelled == Labelled(df, account_type)
       IN [df |-> SetColumn(labelled, "Description",
                            [i \in 1..Len(labelled.rows) |->
                               Truncate(labelled.rows[i].Description)]),
           same |-> FALSE,
           out |-> [k \in 1..Len(SETTINGS[account_type].patterns) |->
                      [kind |-> "pattern",
                       text |-> SETTINGS[account_type].patterns[k]]]]

(***************************************************************************)
(* Sorting.  sort_values sorts with quicksort, which is not stable: rows   *)
(* with equal keys come out in an order the implementation chooses.  Every *)
(* order that is ascending by key is an outcome.                           *)
(***************************************************************************)
RECURSIVE Orderings(_, _)
Orderings(idx, key) ==
  IF idx = {} THEN {<<>>}
  ELSE UNION {{<<i>> \o rest : rest \in Orderings(idx \ {i}, key)} :
              i \in {i \in idx : \A j \in idx : key[i] <= key[j]}}

\* The frames sort_values can leave: the rows in an order ascending by key.
sort_values(df, by) ==
  UNION {{[columns |-> df.columns,
           rows |-> [k \in 1..Len(df.rows) |-> df.rows[order[k]]]] :
          order \in Orderings(1..Len(df.rows), key)} : key \in {by}}

\* A head that keeps the last n rows.
head_takes_last(df, n) ==
  [columns |-> df.columns,
   rows |-> SubSeq(df.rows,
                   IF Len(df.rows) < n THEN 1 ELSE Len(df.rows) - n + 1,
                   Len(df.rows))]

head(df, n) ==
  [columns |-> df.columns,
   rows |-> SubSeq(df.rows, 1, IF Len(df.rows) < n THEN Len(df.rows) ELSE n)]

(***************************************************************************)
(* transactions_over_time.                                                 *)
(***************************************************************************)
NaN == <<"NaN">>

RECURSIVE NewColumns(_, _)
NewColumns(cols, have) ==
  IF cols = <<>> THEN <<>>
  ELSE IF HasColumn(have, Head(cols)) THEN NewColumns(Tail(cols), have)
  ELSE <<Head(cols)>> \o NewColumns(Tail(cols), have)

Reindex(row, colset) ==
  [c \in colset |-> IF c \in DOMAIN row THEN row[c] ELSE NaN]

\* pd.concat([a, b]): a's rows then b's, over the union of the columns in
\* order of appearance, a missing value being NaN.
concat(a, b) ==
  LET columns == a.columns \o NewColumns(b.columns, a)
      colset == {columns[k] : k \in 1..Len(columns)}
  IN [columns |-> columns,
      rows |-> [i \in 1..(Len(a.rows) + Len(b.rows)) |->
                  IF i <= Len(a.rows) THEN Reindex(a.rows[i], colset)
                  ELSE Reindex(b.rows[i - Len(a.rows)], colset)]]

\* Masks that let a zero amount through.
IsExpenseOrZero(x) == x <= 0
IsIncomeOrZero(x) == x >= 0

IsExpense(x) == x < 0
IsIncome(x) == x > 0
Color(x) == IF x >= 0 THEN "green" ELSE "red"

AmountMask(df, type) ==
  [i \in 1..Len(df.rows) |->
     IF type = "+" THEN IsIncome(df.rows[i].Amount)
     ELSE IsExpense(df.rows[i].Amount)]

\* c_clean or s_clean after the account column is assigned.
Tagged(df, account_type) ==
  LET c == clean_description(df, account_type)
  IN SetColumn(c.df, "account", Broadcast(c.df, account_type))

\* The module's frame after the call: the account column lands in the
\* caller's frame when clean_description returned its argument.
AfterTagging(df, account_type) ==
  IF clean_description(df, account_type).same THEN Tagged(df, account_type)
  ELSE df

\* to_plot before it is sorted.
Combined(c_clean, s_clean) ==
  LET to_plot == concat(Filter(c_clean, AmountMask(c_clean, "-")),
                        Filter(s_clean, AmountMask(s_clean, "+")))
  IN SetColumn(to_plot, "Color",
               [i \in 1..Len(to_plot.rows) |-> Color(to_plot.rows[i].Amount)])

DateKey(df) == [i \in 1..Len(df.rows) |-> df.rows[i].Date]

transactions_over_time ==
  \E c_clean \in {Tagged(checking, "checking")},
     s_clean \in {Tagged(savings, "savings")} :
    \E to_plot \in {Combined(c_clean, s_clean)} :
      /\ checking' = AfterTagging(checking, "checking")
      /\ savings' = AfterTagging(savings, "savings")
      /\ result' \in sort_values(to_plot, DateKey(to_plot))
      /\ raised' = IF HasColumn(to_plot, "Description") THEN "none"
                   ELSE "ValueError"
      /\ stdout' = clean_description(checking, "checking").out
                   \o clean_description(savings, "savings").out
      /\ call' = [fn |-> "transactions_over_time", df |-> "both", type |-> "both"]
      /\ UNCHANGED <<SETTINGS, loaded>>

(***************************************************************************)
(* description_pie_chart.                                                  *)
(***************************************************************************)
AccountOf(type) == IF type = "+" THEN "savings" ELSE "checking"

\* to_plot after the direction filter (and, for "-", the sign flip).
Kept(df, type) ==
  LET cleaned == clean_description(df, AccountOf(type)).df
      kept == Filter(cleaned, AmountMask(cleaned, type))
  IN IF type = "+" THEN kept
     ELSE SetColumn(kept, "Amount",
                    [i \in 1..Len(kept.rows) |-> kept.rows[i].Amount * (-1)])

RECURSIVE SumAmount(_, _)
SumAmount(rows, label) ==
  IF rows = <<>> THEN 0
  ELSE (IF Head(rows).Description = label THEN Head(rows).Amount ELSE 0)
       + SumAmount(Tail(rows), label)

GroupColumns == <<"Description", "Total Amount">>

Group(label, total) ==
  [c \in {"Description", "Total Amount"} |->
     IF c = "Description" THEN label ELSE total]

\* groupby("Description").sum().reset_index().rename(...): one row per
\* label that occurs, with the sum of its amounts.
groupby_sum(df) ==
  {Group(df.rows[i].Description, SumAmount(df.rows, df.rows[i].Description)) :
   i \in 1..Len(df.rows)}

\* The groups in an order ascending by total.
RECURSIVE SortedGroupsAscending(_)
SortedGroupsAscending(groups) ==
  IF groups = {} THEN {<<>>}
  ELSE UNION {{<<g>> \o rest : rest \in SortedGroupsAscending(groups \ {g})} :
              g \in {g \in groups :
                       \A h \in groups : h["Total Amount"] >= g["Total Amount"]}}

\* sort_values(by="Total Amount", ascending=False) of the groups: every
\* order that is descending by total.
RECURSIVE SortedGroups(_)
SortedGroups(groups) ==
  IF groups = {} THEN {<<>>}
  ELSE UNION {{<<g>> \o rest : rest \in SortedGroups(groups \ {g})} :
              g \in {g \in groups :
                       \A h \in groups : h["Total Amount"] <= g["Total Amount"]}}

description_pie_chart(d, type) ==
  LET df == IF d = "checking" THEN checking ELSE savings
      to_plot == Kept(df, type)
  IN /\ IF HasColumn(to_plot, "Description")
        THEN /\ \E sorted \in SortedGroups(groupby_sum(to_plot)) :
                  result' = head([columns |-> GroupColumns, rows |-> sorted], TopN)
             /\ raised' = "none"
        ELSE /\ result' = EmptyFrame
             /\ raised' = "KeyError"
     /\ stdout' = clean_description(df, AccountOf(type)).out
     /\ call' = [fn |-> "description_pie_chart", df |-> d, type |-> type]
     /\ UNCHANGED <<SETTINGS, checking, savings, loaded>>

\* A call of clean_description on a loaded frame with its account type.
CleanDescription(d) ==
  LET df == IF d = "checking" THEN checking ELSE savings
      account_type == d
  IN /\ result' = clean_description(df, account_type).df
     /\ raised' = "none"
     /\ stdout' = clean_description(df, account_type).out
     /\ call' = [fn |-> "clean_description", df |-> d, type |-> account_type]
     /\ UNCHANGED <<SETTINGS, checking, savings, loaded>>

Accounts == {"checking", "savings"}

Next ==
  \/ \E d \in Accounts : CleanDescription(d)
  \/ transactions_over_time
  \/ \E d \in Accounts, type \in {"+", "-"} : description_pie_chart(d, type)

(***************************************************************************)
(* The state after the module is loaded: SETTINGS read from settings.json, *)
(* and checking and savings as load_data returns them, sorted by date.     *)
(***************************************************************************)
Schema(hasDescription) ==
  IF hasDescription THEN <<"Date", "Amount", "Description">>
  ELSE <<"Date", "Amount">>

\* An earlier and a later day; an outflow, a zero amount and an inflow.
Dates == {1, 2}
Amounts == {-1, 0, 1}

Records(dates, hasDescription, texts) ==
  IF hasDescription
  THEN [Date : dates, Amount : Amounts, Description : texts]
  ELSE [Date : dates, Amount : Amounts]

SortedByDate(rows) ==
  \A i \in 1..(Len(rows) - 1) : rows[i].Date <= rows[i + 1].Date

\* What load_data can return with n rows.
load_data(n, dates, hasDescription, texts) ==
  {[columns |-> Schema(hasDescription), rows |-> rows] :
   rows \in {r \in [1..n -> Records(dates, hasDescription, texts)] :
             SortedByDate(r)}}

Start(settings, c, s) ==
  /\ SETTINGS = settings
  /\ checking = c
  /\ savings = s
  /\ loaded = [checking |-> c, savings |-> s]
  /\ call = [fn |-> "load_data", df |-> "both", type |-> "both"]
  /\ result = EmptyFrame
  /\ raised = "none"
  /\ stdout = <<>>

\* Two accounts with at most MaxRows transactions between them, with or
\* without a Description column.
SeriesSettings ==
  [checking |-> [patterns |-> << <<"a">> >>, customCategories |-> <<>>],
   savings |-> [patterns |-> <<>>,
                customCategories |-> << << <<"b">>, <<"R">> >> >>]]

SeriesTexts == {<<"a", "b">>}

Init ==
  \E nC \in 0..MaxRows, nS \in 0..MaxRows, hC \in BOOLEAN, hS \in BOOLEAN :
    /\ nC + nS <= MaxRows
    /\ \E c \in load_data(nC, Dates, hC, SeriesTexts),
          s \in load_data(nS, Dates, hS, SeriesTexts) :
         Start(SeriesSettings, c, s)

Spec == Init /\ [][Next]_vars

\* One account with at most MaxRows transactions over two descriptions,
\* followed by none or TopN transactions of distinct dates, descriptions and
\* amounts.
Letters == <<"a", "b", "c", "d", "e", "f", "g", "h", "i", "j", "k", "l">>

PieSettings ==
  [checking |-> [patterns |-> <<>>,
                 customCategories |-> << << <<"a">>, <<"c">> >> >>],
   savings |-> [patterns |-> << <<"b">> >>, customCategories |-> <<>>]]

PieTexts == {<<"a", "b">>, <<"c">>}

Fillers(k, sign) ==
  [j \in 1..k |-> [Date |-> 1 + j, Amount |-> sign * (1 + j),
                   Description |-> <<"F", Letters[j]>>]]

NoRows == [columns |-> Schema(TRUE), rows |-> <<>>]

InitPie ==
  \E n \in 0..MaxRows, k \in {0, TopN}, sign \in {-1, 1} :
    \E f \in load_data(n, {1}, TRUE, PieTexts) :
      LET full == [columns |-> f.columns, rows |-> f.rows \o Fillers(k, sign)]
      IN IF sign < 0 THEN Start(PieSettings, full, NoRows)
         ELSE Start(PieSettings, NoRows, full)

SpecPie == InitPie /\ [][Next]_vars

\* One checking transaction and the same settings for both account types.
OneRow(text) ==
  [columns |-> Schema(TRUE),
   rows |-> <<[Date |-> 1, Amount |-> -1, Description |-> text]>>]

Both(patterns, custom_categories) ==
  LET st == [patterns |-> patterns, customCategories |-> custom_categories]
  IN [checking |-> st, savings |-> st]

Texts(alphabet, n) == UNION {[1..k -> alphabet] : k \in 0..n}

\* The sequences of at most n elements of pool.
Lists(pool, n) == UNION {[1..k -> pool] : k \in 0..n}

\* Short descriptions over a small alphabet and short pattern lists.
StripPatterns == {<<"a", "b">>, <<" ">>}

InitStrip ==
  \E text \in Texts({"a", "b", " "}, MaxLen),
     patterns \in Lists(StripPatterns, MaxPatterns) :
    Start(Both(patterns, <<>>), OneRow(text), NoRows)

SpecStrip == InitStrip /\ [][Next]_vars

\* Descriptions and rules of a bank export, and short ones.
PennStateAptRentPayment == <<"P", "e", "n", "n", " ", "S", "t", "a", "t", "e", " ", "A", "p", "t", " ", "R", "e", "n", "t", " ", "P", "a", "y", "m", "e", "n", "t">>
PennStateAptRent == <<"P", "e", "n", "n", " ", "S", "t", "a", "t", "e", " ", "A", "p", "t", " ", "R", "e", "n", "t">>
AptRent == <<"A", "p", "t", " ", "R", "e", "n", "t">>
Coffee01 == <<"0", "1", " ", "C", "o", "f", "f", "e", "e">>
Rent == <<"R", "e", "n", "t">>
Housing == <<"H", "o", "u", "s", "i", "n", "g">>

SubstTexts ==
  {PennStateAptRentPayment, AptRent, Coffee01, Rent}
  \cup Texts({"a", "b"}, MaxLen - 1)

Rules ==
  {<<AptRent, Rent>>, <<PennStateAptRent, Housing>>,
   <<<<"a">>, <<"b">>>>, <<<<"b">>, <<"a">>>>}

\* A mapping holds a trigger once.
DistinctTriggers(rules) ==
  \A i \in 1..Len(rules), j \in 1..Len(rules) :
    rules[i][1] = rules[j][1] => i = j

InitSubst ==
  \E text \in SubstTexts,
     patterns \in {<<>>, << <<"\\d", "\\d">> >>},
     rules \in {r \in Lists(Rules, MaxRules) : DistinctTriggers(r)} :
    Start(Both(patterns, rules), OneRow(text), NoRows)

SpecSubst == InitSubst /\ [][Next]_vars

\* Descriptions and labels of Limit - 1 to Limit + MaxOver characters, and
\* shorter descriptions.
RECURSIVE Pad(_)
Pad(n) == IF n = 0 THEN <<>> ELSE <<"x">> \o Pad(n - 1)

TruncTexts ==
  {Pad(n) : n \in 0..(Limit + MaxOver)}
  \cup {<<"k", " ">> \o Pad(n) : n \in 0..(Limit + MaxOver)}

TruncRules ==
  {<<>>} \cup {<< <<<<"k">>, Pad(m)>> >> : m \in (Limit - 1)..(Limit + MaxOver)}

InitTrunc ==
  \E text \in TruncTexts, patterns \in {<<>>, << <<"k", " ">> >>},
     rules \in TruncRules :
    Start(Both(patterns, rules), OneRow(text), NoRows)

SpecTrunc == InitTrunc /\ [][Next]_vars

(***************************************************************************)
(* Properties.                                                             *)
(***************************************************************************)
Frame(d) == IF d = "checking" THEN checking ELSE savings

CleanCalled == call.fn = "clean_description"
CleanedText == CleanCalled /\ HasColumn(Frame(call.df), "Description")
PieCalled == call.fn = "description_pie_chart" /\ raised = "none"
SeriesCalled == call.fn = "transactions_over_time"

Matches(D, rules) == {k \in 1..Len(rules) : contains(D, rules[k][1])}
LastMatch(D, rules) ==
  CHOOSE k \in Matches(D, rules) : \A j \in Matches(D, rules) : j <= k

\* The first Limit characters and the ellipsis for a text longer than Limit.
Cut(x) ==
  IF Len(x) > Limit THEN [k \in 1..(Limit + 3) |-> IF k <= Limit THEN x[k] ELSE "."]
  ELSE x

Trimmed(x) ==
  x = <<>> \/ (x[1] \notin Whitespace /\ x[Len(x)] \notin Whitespace)

\* C1: after clean_description, a description whose noise-stripped text D
\* contains one or more triggers is labelled (before truncation) with the
\* label of the last trigger, in mapping order, that D contains.
C1_LastMatchWins ==
  CleanedText =>
    LET D == NoiseStripped(Frame(call.df), call.type).rows
        L == Labelled(Frame(call.df), call.type).rows
        rules == SETTINGS[call.type].customCategories
    IN \A i \in 1..Len(D) :
         Matches(D[i].Description, rules) # {} =>
           L[i].Description = rules[LastMatch(D[i].Description, rules)][2]

\* C2: the loaded checking and savings frames have the columns, rows and
\* values they had when load_data returned, whatever calls were made.
C2_LoadedNeverMutated ==
  checking = loaded.checking /\ savings = loaded.savings

\* C3 (as claimed): every description returned by clean_description has at
\* most Limit (30) characters.
C3_AtMostLimit ==
  CleanedText =>
    \A i \in 1..Len(result.rows) : Len(result.rows[i].Description) <= Limit

\* C3 (amended): every description returned by clean_description has at most
\* Limit + 3 (33) characters: at most Limit characters of the label, and the
\* three-character ellipsis when the label was longer.
C3_AtMostLimitAndEllipsis ==
  CleanedText =>
    \A i \in 1..Len(result.rows) : Len(result.rows[i].Description) <= Limit + 3

C3_Witness ==
  /\ CleanedText
  /\ \E i \in 1..Len(result.rows) : Len(result.rows[i].Description) = Limit + 3

\* C9: clean_description truncates every label after substitution: a label
\* of more than Limit characters becomes its first Limit characters followed
\* by "...", and a label of Limit characters or fewer is unchanged.
C9_TruncationAtBoundary ==
  CleanedText =>
    LET L == Labelled(Frame(call.df), call.type).rows
    IN /\ Len(result.rows) = Len(L)
       /\ \A i \in 1..Len(L) :
            result.rows[i].Description = Cut(L[i].Description)

C9_Witness ==
  /\ CleanedText
  /\ \E i \in 1..Len(result.rows) :
       LET x == Labelled(Frame(call.df), call.type).rows[i].Description
       IN /\ Len(x) = Limit + 1
          /\ result.rows[i].Description = SubSeq(x, 1, Limit) \o <<".", ".", ".">>

\* C7 (as claimed): a second full pass of the pattern list over text that
\* went through one full pass changes nothing.
C7_Idempotent ==
  CleanedText =>
    LET once == NoiseStripped(Frame(call.df), call.type)
    IN NoiseStripped(once, call.type).rows = once.rows

\* C7 (amended): a second full pass never lengthens the text, and changes it
\* only if one of the patterns matches the output of the first pass; after a
\* pass with a non-empty pattern list the text has no leading or trailing
\* whitespace.
C7_SecondPass ==
  CleanedText =>
    LET once == NoiseStripped(Frame(call.df), call.type)
        twice == NoiseStripped(once, call.type)
        patterns == SETTINGS[call.type].patterns
    IN \A i \in 1..Len(once.rows) :
         LET a == once.rows[i].Description
             b == twice.rows[i].Description
         IN /\ Len(b) <= Len(a)
            /\ (\A k \in 1..Len(patterns) : ~contains(a, patterns[k])) => b = a
            /\ patterns # <<>> => Trimmed(a)

C7_Witness ==
  /\ CleanedText
  /\ LET once == NoiseStripped(Frame(call.df), call.type)
     IN /\ once.rows # <<>>
        /\ NoiseStripped(once, call.type).rows # once.rows
        /\ result.rows[1].Description = once.rows[1].Description

Negated(rows) == [i \in 1..Len(rows) |-> [rows[i] EXCEPT !.Amount = 0 - @]]

Cleaned(d, type) == clean_description(Frame(d), AccountOf(type)).df

\* The rows with an amount of at least, above, or below, a limit.
AtLeast(rows, limit) ==
  SelectRows(rows, [i \in 1..Len(rows) |-> rows[i].Amount >= limit], 1)

Above(rows, limit) ==
  SelectRows(rows, [i \in 1..Len(rows) |-> rows[i].Amount > limit], 1)

Below(rows, limit) ==
  SelectRows(rows, [i \in 1..Len(rows) |-> rows[i].Amount < limit], 1)

Totals(rows) == {rows[i]["Total Amount"] : i \in 1..Len(rows)}

\* C4 (as claimed): "+" keeps exactly the records with amount >= 0, "-"
\* keeps exactly the records with amount < 0 and negates them, and every
\* aggregated expense is positive.
C4_SignPartition ==
  PieCalled =>
    LET rows == Cleaned(call.df, call.type).rows
        kept == Kept(Frame(call.df), call.type).rows
    IN IF call.type = "+" THEN kept = AtLeast(rows, 0)
       ELSE /\ kept = Negated(Below(rows, 0))
            /\ \A t \in Totals(result.rows) : t > 0

\* C4 (amended): "+" keeps exactly the records with amount > 0, so that a
\* zero-amount record is in neither direction; "-" keeps exactly the records
\* with amount < 0 and negates them; every aggregated value is positive.
C4_StrictSignPartition ==
  PieCalled =>
    LET rows == Cleaned(call.df, call.type).rows
        kept == Kept(Frame(call.df), call.type).rows
    IN /\ IF call.type = "+" THEN kept = Above(rows, 0)
          ELSE kept = Negated(Below(rows, 0))
       /\ \A t \in Totals(result.rows) : t > 0

C4_Witness ==
  /\ PieCalled
  /\ call.type = "+"
  /\ \E i \in 1..Len(Frame(call.df).rows) : Frame(call.df).rows[i].Amount = 0
  /\ result.rows # <<>>
  /\ Len(Kept(Frame(call.df), call.type).rows) < Len(Frame(call.df).rows)

Labels(rows) == {rows[i].Description : i \in 1..Len(rows)}

RECURSIVE TotalOf(_, _, _)
TotalOf(rows, label, i) ==
  IF i > Len(rows) THEN 0
  ELSE TotalOf(rows, label, i + 1)
       + (IF rows[i].Description = label THEN rows[i].Amount ELSE 0)

Min(a, b) == IF a < b THEN a ELSE b

\* C5: the aggregation returns one (label, total) pair per distinct label of
\* the filtered records, the total being the sum of the label's filtered
\* amounts, ordered by total descending and cut to min(TopN, number of
\* labels) pairs, no omitted label having a greater total than a returned one.
C5_TopTotals ==
  PieCalled =>
    LET kept == Kept(Frame(call.df), call.type).rows
        out == result.rows
    IN /\ Len(out) = Min(TopN, Cardinality(Labels(kept)))
       /\ \A i \in 1..Len(out) :
            /\ out[i].Description \in Labels(kept)
            /\ out[i]["Total Amount"] = TotalOf(kept, out[i].Description, 1)
       /\ \A i \in 1..Len(out), j \in 1..Len(out) :
            /\ i < j => out[i]["Total Amount"] >= out[j]["Total Amount"]
            /\ out[i].Description = out[j].Description => i = j
       /\ \A label \in Labels(kept) \ Labels(out) :
            \A i \in 1..Len(out) :
              TotalOf(kept, label, 1) <= out[i]["Total Amount"]

C5_Witness ==
  /\ PieCalled
  /\ Cardinality(Labels(Kept(Frame(call.df), call.type).rows)) > TopN
  /\ Len(result.rows) = TopN
  /\ \E i \in 1..Len(result.rows) :
       Cardinality({k \in 1..Len(Frame(call.df).rows) :
                      Cleaned(call.df, call.type).rows[k].Description
                        = result.rows[i].Description}) > 1

FirstSeen(rows, label) ==
  CHOOSE i \in 1..Len(rows) :
    /\ rows[i].Description = label
    /\ \A j \in 1..(i - 1) : rows[j].Description # label

\* C10 (as claimed): labels of equal total appear in the order in which they
\* were first encountered in the cleaned records, and that order decides
\* which of them the cutoff keeps.
C10_FirstSeenTieBreak ==
  PieCalled =>
    LET kept == Kept(Frame(call.df), call.type).rows
        out == result.rows
    IN /\ \A i \in 1..Len(out), j \in 1..Len(out) :
            (i < j /\ out[i]["Total Amount"] = out[j]["Total Amount"]) =>
              FirstSeen(kept, out[i].Description)
                < FirstSeen(kept, out[j].Description)
       /\ \A label \in Labels(kept) \ Labels(out) :
            \A i \in 1..Len(out) :
              out[i]["Total Amount"] = TotalOf(kept, label, 1) =>
                FirstSeen(kept, out[i].Description) < FirstSeen(kept, label)

\* C10 (amended): labels of equal total appear next to each other, in an
\* order the code does not fix (not the order of first encounter), and the
\* cutoff leaves out a label only if every returned total is at least its
\* total.
C10_TiesAdjacent ==
  PieCalled =>
    LET kept == Kept(Frame(call.df), call.type).rows
        out == result.rows
    IN /\ \A i \in 1..Len(out), j \in 1..Len(out), k \in 1..Len(out) :
            (i < k /\ k < j /\ out[i]["Total Amount"] = out[j]["Total Amount"])
              => out[k]["Total Amount"] = out[i]["Total Amount"]
       /\ \A label \in Labels(kept) \ Labels(out) :
            /\ Len(out) = TopN
            /\ \A i \in 1..Len(out) :
                 TotalOf(kept, label, 1) <= out[i]["Total Amount"]

\* A tie in which the label encountered later comes first.
C10_Witness ==
  /\ PieCalled
  /\ LET kept == Kept(Frame(call.df), call.type).rows
         out == result.rows
     IN \E i \in 1..Len(out), j \in 1..Len(out) :
          /\ i < j
          /\ out[i]["Total Amount"] = out[j]["Total Amount"]
          /\ FirstSeen(kept, out[i].Description)
               > FirstSeen(kept, out[j].Description)

Key(row) ==
  <<row.account, row.Date, row.Amount,
    IF "Description" \in DOMAIN row THEN row.Description ELSE NaN>>

Keys(rows, account_type) ==
  [i \in 1..Len(rows) |-> Key([c \in DOMAIN rows[i] \cup {"account"} |->
                                 IF c = "account" THEN account_type
                                 ELSE rows[i][c]])]

Count(seq, x) == Cardinality({i \in 1..Len(seq) : seq[i] = x})

\* C6: the series holds exactly the checking records that are outflows and
\* the savings records that are inflows, in date order, each coloured by the
\* sign of its amount: green for an inflow, red for an outflow.
C6_SeriesContents ==
  SeriesCalled =>
    LET outflows == Keys(Below(clean_description(checking, "checking").df.rows, 0),
                         "checking")
        inflows == Keys(Above(clean_description(savings, "savings").df.rows, 0),
                        "savings")
        series == [i \in 1..Len(result.rows) |-> Key(result.rows[i])]
    IN /\ Len(series) = Len(outflows) + Len(inflows)
       /\ \A i \in 1..Len(series) :
            Count(series, series[i])
              = Count(outflows, series[i]) + Count(inflows, series[i])
       /\ \A i \in 1..Len(result.rows) :
            LET row == result.rows[i]
            IN /\ row.account = "checking" => row.Amount < 0
               /\ row.account = "savings" => row.Amount > 0
               /\ row.Color = IF row.Amount > 0 THEN "green" ELSE "red"
               /\ row.Amount # 0
               /\ i < Len(result.rows) => row.Date <= result.rows[i + 1].Date

\* A checking inflow is left out, and the savings inflow of the earlier day
\* comes before the checking outflow of the later day.
C6_Witness ==
  /\ SeriesCalled
  /\ \E i \in 1..Len(checking.rows) : checking.rows[i].Amount > 0
  /\ Len(result.rows) = 2
  /\ result.rows[1].account = "savings"
  /\ result.rows[2].account = "checking"
  /\ result.rows[1].Date < result.rows[2].Date
  /\ result.rows[1].Color = "green"
  /\ result.rows[2].Color = "red"

====
